---- MODULE Spec2Model ----
(***************************************************************************)
(* Model of the solar irradiance engine of solar-app:                      *)
(*   - obtenerGdOpenMeteo (src/src/js/solar_formulas.js), the retry loop   *)
(*     around the Open-Meteo request;                                      *)
(*   - calcularRadiacionOptima (solar_radiation_core.js, listed in         *)
(*     src/README.md), the tilt optimizer, with the formulas it calls;     *)
(*   - ejecutarCalculos and the sizing functions of main_script.js,        *)
(*     calcularConsumoTotal, and handleGridCalculation                     *)
(*     (main_grid_script.js), the pages that call the engine.              *)
(*                                                                         *)
(* Real numbers are fixed-point integers: a quantity x is held as          *)
(* x * SCALE (angles in milliradians, energies in Wh/m2).  NaN, Infinity,  *)
(* undefined and null are sentinel values outside the numeric range.       *)
(***************************************************************************)
EXTENDS Integers, Sequences, FiniteSets, TLC

\* ---------------------------------------------------------------------------
\* Fixed-point arithmetic
\* ---------------------------------------------------------------------------

SCALE == 1000

\* JS NaN (let Id_beta = NaN), Math.min() of no arguments (Infinity), a
\* property that was never assigned (undefined) and null
NaN == -2000000000

Infinity == 2000000000

Undefined == -2000000001

Null == -2000000002

\* typeof x === 'number' (NaN is a number, undefined and null are not)
TypeofNumber(x) == x # Undefined /\ x # Null

\* x > 0 as JS evaluates it: false for NaN, undefined and null
Positivo(x) == x # NaN /\ x # Undefined /\ x # Null /\ x > 0

\* !isNaN(x)
NoEsNaN(x) == x # NaN /\ x # Undefined

Mul(a, b) == (a * b) \div SCALE

\* const x = valor; Cuerpo(x): the value is computed once and then used
Con(valor, Cuerpo(_)) == CHOOSE r \in {Cuerpo(x) : x \in {valor}} : TRUE

\* Math.PI, in milliradians
PI == 3142

HALF_PI == 1571

TWO_PI == 6283

\* 180 / PI, degrees per radian (scaled)
RAD_A_DEG == 57296

ICS == 1367

\* 24 / PI (scaled)
FACTOR_G0D == (24 * SCALE * SCALE) \div PI

\* x / RAD_A_DEG for x in degrees: the angle in milliradians
GradosARadianes(grados) == (grados * SCALE * SCALE) \div RAD_A_DEG

\* Math.sin on [-PI/2, PI/2], Taylor polynomial to the 9th power
SinPoly(y) ==
    LET y2 == Mul(y, y)
        y3 == Mul(y2, y)
        y5 == Mul(y3, y2)
        y7 == Mul(y5, y2)
        y9 == Mul(y7, y2)
    IN  ((y * 362880) - (y3 * 60480) + (y5 * 3024) - (y7 * 72) + y9) \div 362880

\* Math.sin: reduce the argument to [-PI, PI), fold to [-PI/2, PI/2]
Sin(x) ==
    LET r == ((x + PI) % TWO_PI) - PI
        y == IF r > HALF_PI THEN PI - r
             ELSE IF r < -HALF_PI THEN (-PI) - r
             ELSE r
    IN  SinPoly(y)

\* Math.cos
Cos(x) == Sin(x + HALF_PI)

\* Math.tan
Tan(x) == (Sin(x) * SCALE) \div Cos(x)

\* Math.acos on [-1, 1]: bisection on the decreasing branch of cos
RECURSIVE AcosBis(_, _, _)
AcosBis(lo, hi, a) ==
    IF hi - lo <= 1
    THEN lo
    ELSE Con((lo + hi) \div 2, LAMBDA mid :
             IF Cos(mid) > a THEN AcosBis(mid, hi, a) ELSE AcosBis(lo, mid, a))

Acos(a) == IF a >= SCALE THEN 0 ELSE IF a <= -SCALE THEN PI ELSE AcosBis(0, PI, a)

Max(a, b) == IF a >= b THEN a ELSE b

Min(a, b) == IF a <= b THEN a ELSE b

\* ---------------------------------------------------------------------------
\* Astronomical model and radiation formulas (solar_formulas.js)
\* ---------------------------------------------------------------------------

\* calcularDelta(dn): solar declination, milliradians
calcularDelta(dn) ==
    LET gamma == (TWO_PI * (dn - 1)) \div 365
        micro == 6918 * SCALE
                 - 399912 * Cos(gamma) + 70257 * Sin(gamma)
                 - 6758 * Cos(2 * gamma) + 907 * Sin(2 * gamma)
                 - 2697 * Cos(3 * gamma) + 1480 * Sin(3 * gamma)
    IN  micro \div (SCALE * SCALE)

\* calcularG0d whose first test is "not out of range", which NaN passes
calcularG0dSinCasoNaN(latitudRadianes, delta_rad, dn) ==
    LET argE0 == (TWO_PI * dn) \div 365
        E0 == SCALE + (33 * Cos(argE0)) \div SCALE
        operandoArccos == IF latitudRadianes = NaN \/ delta_rad = NaN
                          THEN NaN
                          ELSE -Mul(Tan(latitudRadianes), Tan(delta_rad))
        factor == Mul((FACTOR_G0D * ICS) \div SCALE, E0)
    IN  IF operandoArccos = NaN
        THEN [omega_s |-> NaN, E0 |-> E0, G0d_kWh |-> NaN]
        ELSE IF operandoArccos >= -SCALE /\ operandoArccos <= SCALE
        THEN LET omega_s_rad == Acos(operandoArccos)
                 termino1 == Mul(Mul(omega_s_rad, Sin(delta_rad)), Sin(latitudRadianes))
                 termino2 == Mul(Mul(Cos(delta_rad), Cos(latitudRadianes)), Sin(omega_s_rad))
                 G0d_valor_Wh == Mul(factor, termino1 + termino2)
             IN  [omega_s |-> omega_s_rad, E0 |-> E0, G0d_kWh |-> (G0d_valor_Wh * SCALE) \div 1000]
        ELSE IF operandoArccos < -SCALE
        THEN LET omega_s_rad == PI
                 termino1_polar == Mul(Mul(omega_s_rad, Sin(delta_rad)), Sin(latitudRadianes))
                 G0d_valor_Wh == Mul(factor, termino1_polar)
             IN  [omega_s |-> omega_s_rad, E0 |-> E0, G0d_kWh |-> (G0d_valor_Wh * SCALE) \div 1000]
        ELSE [omega_s |-> 0, E0 |-> E0, G0d_kWh |-> 0]

\* calcularG0d(latitudRadianes, delta_rad, dn)
calcularG0d(latitudRadianes, delta_rad, dn) ==
    LET argE0 == (TWO_PI * dn) \div 365
        E0 == SCALE + (33 * Cos(argE0)) \div SCALE
        operandoArccos == IF latitudRadianes = NaN \/ delta_rad = NaN
                          THEN NaN
                          ELSE -Mul(Tan(latitudRadianes), Tan(delta_rad))
        \* FACTOR_G0D * ICS * E0, in Wh/m2
        factor == Mul((FACTOR_G0D * ICS) \div SCALE, E0)
    IN  IF NoEsNaN(operandoArccos) /\ operandoArccos >= -SCALE /\ operandoArccos <= SCALE
        THEN LET omega_s_rad == Acos(operandoArccos)
                 termino1 == Mul(Mul(omega_s_rad, Sin(delta_rad)), Sin(latitudRadianes))
                 termino2 == Mul(Mul(Cos(delta_rad), Cos(latitudRadianes)), Sin(omega_s_rad))
                 G0d_valor_Wh == Mul(factor, termino1 + termino2)
             IN  [omega_s |-> omega_s_rad, E0 |-> E0, G0d_kWh |-> (G0d_valor_Wh * SCALE) \div 1000]
        ELSE IF NoEsNaN(operandoArccos) /\ operandoArccos < -SCALE
        THEN LET omega_s_rad == PI
                 termino1_polar == Mul(Mul(omega_s_rad, Sin(delta_rad)), Sin(latitudRadianes))
                 G0d_valor_Wh == Mul(factor, termino1_polar)
             IN  [omega_s |-> omega_s_rad, E0 |-> E0, G0d_kWh |-> (G0d_valor_Wh * SCALE) \div 1000]
        ELSE [omega_s |-> 0, E0 |-> E0, G0d_kWh |-> 0]

\* calcularComponentesHorizontales(Gd_kWh, G0d_kWh)
calcularComponentesHorizontales(Gd_kWh, G0d_kWh) ==
    IF TypeofNumber(Gd_kWh) /\ Positivo(Gd_kWh) /\ Positivo(G0d_kWh)
    THEN LET Kd0 == (Gd_kWh * SCALE) \div G0d_kWh
             Kd == IF Kd0 > SCALE THEN SCALE ELSE Kd0
             Kd2 == Mul(Kd, Kd)
             Kd3 == Mul(Kd2, Kd)
             poli == 1390 * SCALE - 4027 * Kd + 5531 * Kd2 - 3108 * Kd3
             Dd0 == (Gd_kWh * (poli \div SCALE)) \div SCALE
             Dd == IF Dd0 < 0 THEN 0 ELSE Dd0
             Id0 == Gd_kWh - Dd
             Id == IF Id0 < 0 THEN 0 ELSE Id0
         IN  [Kd |-> Kd, Dd |-> Dd, Id |-> Id]
    ELSE [Kd |-> NaN, Dd |-> NaN, Id |-> NaN]

\* calcularRb(phi_rad, delta_rad, omega_s_rad, beta_rad)
calcularRb(p, d, w, b) ==
    LET num_term1 == Mul(Mul(w, Sin(d)), Sin(p - b))
        num_term2 == Mul(Mul(Cos(d), Cos(p - b)), Sin(w))
        numerador == num_term1 + num_term2
        den_term1 == Mul(Mul(w, Sin(d)), Sin(p))
        den_term2 == Mul(Mul(Cos(d), Cos(p)), Sin(w))
        denominador == den_term1 + den_term2
    IN  IF p = NaN \/ d = NaN \/ w = NaN \/ b = NaN THEN NaN
        ELSE IF denominador = 0 THEN 0
        ELSE (numerador * SCALE) \div denominador

\* calcularRadiacionInclinada(inclinacionRadianes, item, latitudRadianes)
calcularRadiacionInclinada(inclinacionRadianes, item, latitudRadianes) ==
    LET Rb == calcularRb(latitudRadianes, item.delta, item.omega_s, inclinacionRadianes)
        Gd_kWh == item.Gd_kWh
        G0d_kWh == item.G0d_kWh
        Dd == item.Dd
        Id == item.Id
    IN  IF TypeofNumber(Gd_kWh) /\ Positivo(Gd_kWh) /\ Positivo(G0d_kWh)
        THEN LET Id_beta0 == Mul(Id, Rb)
                 Id_beta == IF Id_beta0 < 0 THEN 0 ELSE Id_beta0
                 Ai == (Id * SCALE) \div G0d_kWh
                 anisotropyIndex == Max(0, Min(SCALE, Ai))
                 Rd_term == (SCALE + Cos(inclinacionRadianes)) \div 2
                 Dd_beta == Mul(Mul(Dd, anisotropyIndex), Rb)
                            + Mul(Mul(Dd, SCALE - anisotropyIndex), Rd_term)
                 Rr_term == (SCALE - Cos(inclinacionRadianes)) \div 2
                 Rr == Mul(Mul(200, Gd_kWh), Rr_term)
             IN  [Rb |-> Rb, Id_beta |-> Id_beta, Dd_beta |-> Dd_beta,
                  Gi |-> Id_beta + Dd_beta + Rr]
        ELSE [Rb |-> Rb, Id_beta |-> NaN, Dd_beta |-> NaN, Gi |-> NaN]

\* ---------------------------------------------------------------------------
\* Inputs of one optimization run
\* ---------------------------------------------------------------------------

\* const mesesData
mesesData == <<
    [nombre |-> "Enero",      dias |-> 31, inicio_dn |-> 1],
    [nombre |-> "Febrero",    dias |-> 28, inicio_dn |-> 32],
    [nombre |-> "Marzo",      dias |-> 31, inicio_dn |-> 60],
    [nombre |-> "Abril",      dias |-> 30, inicio_dn |-> 91],
    [nombre |-> "Mayo",       dias |-> 31, inicio_dn |-> 121],
    [nombre |-> "Junio",      dias |-> 30, inicio_dn |-> 152],
    [nombre |-> "Julio",      dias |-> 31, inicio_dn |-> 182],
    [nombre |-> "Agosto",     dias |-> 31, inicio_dn |-> 213],
    [nombre |-> "Septiembre", dias |-> 30, inicio_dn |-> 244],
    [nombre |-> "Octubre",    dias |-> 31, inicio_dn |-> 274],
    [nombre |-> "Noviembre",  dias |-> 30, inicio_dn |-> 305],
    [nombre |-> "Diciembre",  dias |-> 31, inicio_dn |-> 335] >>

Meses == 1..Len(mesesData)

\* Conversion of MJ/m2 to kWh/m2 (0.277778)
MJ_A_KWH == 278

\* Outcome of one call of obtenerGdOpenMeteo as the optimizer sees it: the
\* call rejects (Rechazo) or resolves with value_MJ * MJ_A_KWH
Rechazo == -2000000003

ResolverGd(value_MJ) == IF value_MJ = NaN THEN NaN ELSE Mul(value_MJ, MJ_A_KWH)

\* Daily shortwave radiation sums (MJ/m2, scaled) the archive delivers for
\* the twelve months: 4.0 to 6.5 kWh/m2 per day
PerfilMJ == <<14400, 16200, 19800, 21600, 23400, 22000,
              21000, 20500, 19000, 17500, 15500, 14800>>

\* Largest number of months whose request fails or delivers no radiation
MaxDudosos == 3

LatitudesGrados == {10, 89}

DiasDelMes == {0, 15, 31}

\* What the data source does for a month that has no usable data: the call
\* rejects, or resolves with 0
SinDato(modo, m) ==
    IF modo = "rechazo" THEN Rechazo
    ELSE IF modo = "cero" THEN 0
    ELSE IF m % 2 = 1 THEN Rechazo ELSE 0

\* What the data source does for each month: a value in MJ/m2, or Rechazo.
\* The first n months have no usable data, the others follow PerfilMJ.
Fuentes ==
    { [m \in Meses |-> IF m <= n THEN SinDato(modo, m) ELSE PerfilMJ[m]] :
        n \in 0..MaxDudosos, modo \in {"rechazo", "cero", "alterno"} }

\* ---------------------------------------------------------------------------
\* State
\* ---------------------------------------------------------------------------

VARIABLES
    latitudGrados,    \* argument of calcularRadiacionOptima
    diaDelMes,        \* argument of calcularRadiacionOptima
    fuente,           \* the data source's answer for each month
    pc,               \* position of calcularRadiacionOptima
    i,                \* loop variable of the request loop (1-based)
    preApiPromises,   \* the array of month objects, each with its GdPromise
    resultado,        \* the value calcularRadiacionOptima returned
    invocaciones,     \* calls of calcularRadiacionOptima started so far
    fueraDeOrden,     \* a request of this call settled before an earlier month's
    resultadoAnterior, \* what the previous call returned, if it had the same inputs
    maxRetries,       \* argument of obtenerGdOpenMeteo
    attempt,          \* loop variable of the retry loop
    fpc,              \* position of obtenerGdOpenMeteo
    respuestas,       \* what each fetch attempt of the call met, in order
    esperas,          \* the setTimeout delays of the call (ms), in order
    fresultado,       \* the value or the error the call settled with
    entrada,          \* arguments of one application of a radiation formula
    aplicada,         \* the formula that was applied to them
    salida,           \* the object it returned
    campos,           \* parsed values of the fields latitud, longitud, diaDelMes
    ET_Global_Wh,     \* let ET_Global_Wh of main_script.js
    corridas,         \* the runs of ejecutarCalculos started so far, in order
    spinner,          \* style.display of loading-spinner
    resultadosMensualesGlobales,  \* let resultadosMensualesGlobales
    inclinacionDisplay,  \* text of inclinacion-display
    inputHps,         \* value of input-hps
    inputEt,          \* value of input-et
    manuales,         \* input-pp, input-vbat and input-vp hold positive numbers
    resultadoMatriz,  \* content of resultado-matriz
    resultadoBaterias,  \* content of resultado-baterias
    resultadoRegulador, \* content of resultado-regulador
    resultadoCableado,  \* content of resultado-cableado
    formulario,       \* values of the fields of grid-calculation-form
    gpc,              \* position of handleGridCalculation
    envio,            \* what handleGridCalculation read at entry and awaited
    gridResults,      \* content of grid-results
    resultadoAnual,   \* content of resultado-anual (summary and sizing of the generator)
    solicitudesPais,  \* requests sent by obtenerPaisPorCoordenadas so far
    llamadasOptima    \* calls of calcularRadiacionOptima so far

optVars == <<latitudGrados, diaDelMes, fuente, pc, i, preApiPromises, resultado,
             invocaciones, fueraDeOrden, resultadoAnterior>>

fetchVars == <<maxRetries, attempt, fpc, respuestas, esperas, fresultado>>

formVars == <<entrada, aplicada, salida>>

uiVars == <<campos, ET_Global_Wh, corridas, spinner, resultadosMensualesGlobales,
            inclinacionDisplay, inputHps, resultadoAnual, solicitudesPais, llamadasOptima,
            inputEt, manuales, resultadoMatriz, resultadoBaterias, resultadoRegulador,
            resultadoCableado>>

gridVars == <<formulario, gpc, envio, gridResults>>

\* What a step of the optimizer, of one call, of a formula, of the page, of
\* the grid page leaves alone
fueraDelOptimizador == <<fetchVars, formVars, uiVars, gridVars>>

fueraDeLaLlamada == <<optVars, formVars, uiVars, gridVars>>

fueraDeLasFormulas == <<optVars, fetchVars, uiVars, gridVars>>

fueraDeLaPagina == <<optVars, fetchVars, formVars, gridVars>>

fueraDeLaRed == <<optVars, fetchVars, formVars, uiVars>>

vars == <<optVars, fetchVars, formVars, uiVars, gridVars>>

latitudRadianes == GradosARadianes(latitudGrados)

\* ---------------------------------------------------------------------------
\* calcularRadiacionOptima, step 1: the request loop
\* ---------------------------------------------------------------------------

\* NuevoItem with the request awaited inside the loop
\* (GdPromise: await obtenerGdOpenMeteo(...)): the object is pushed once its
\* request has settled
NuevoItemSecuencial(mes) ==
    LET mesData == mesesData[mes]
        dn == mesData.inicio_dn + (diaDelMes - 1)
        delta_rad == calcularDelta(dn)
        g == calcularG0d(latitudRadianes, delta_rad, dn)
    IN  [mes |-> mes, diasEnMes |-> mesData.dias, dn |-> dn, delta |-> delta_rad,
         E0 |-> g.E0, omega_s |-> g.omega_s, G0d_kWh |-> g.G0d_kWh,
         GdPromise |-> IF fuente[mes] = Rechazo THEN "rejected" ELSE "fulfilled",
         callback |-> "none",
         Gd_kWh |-> Undefined, Kd |-> Undefined, Dd |-> Undefined, Id |-> Undefined]

\* The object pushed for month i; GdPromise is the pending request
NuevoItem(mes) ==
    LET mesData == mesesData[mes]
        dn == mesData.inicio_dn + (diaDelMes - 1)
        delta_rad == calcularDelta(dn)
        g == calcularG0d(latitudRadianes, delta_rad, dn)
    IN  [mes |-> mes, diasEnMes |-> mesData.dias, dn |-> dn, delta |-> delta_rad,
         E0 |-> g.E0, omega_s |-> g.omega_s, G0d_kWh |-> g.G0d_kWh,
         GdPromise |-> "pending", callback |-> "none",
         Gd_kWh |-> Undefined, Kd |-> Undefined, Dd |-> Undefined, Id |-> Undefined]

\* MesOmitido without the upper test
MesOmitidoSinMaximo(mes) == diaDelMes < 1

\* MesOmitido without the lower test
MesOmitidoSinMinimo(mes) == diaDelMes > mesesData[mes].dias

\* if (diaDelMes < 1 || diaDelMes > mesData.dias) continue;
MesOmitido(mes) == diaDelMes < 1 \/ diaDelMes > mesesData[mes].dias

OmitirMes ==
    /\ pc = "loop"
    /\ i <= Len(mesesData)
    /\ MesOmitido(i)
    /\ i' = i + 1
    /\ UNCHANGED <<invocaciones, fueraDeOrden, resultadoAnterior, latitudGrados, diaDelMes, fuente, pc, preApiPromises, resultado>>
    /\ UNCHANGED fueraDelOptimizador

EmitirSolicitud ==
    /\ pc = "loop"
    /\ i <= Len(mesesData)
    /\ ~MesOmitido(i)
    /\ preApiPromises' = Append(preApiPromises, NuevoItem(i))
    /\ i' = i + 1
    /\ UNCHANGED <<invocaciones, fueraDeOrden, resultadoAnterior, latitudGrados, diaDelMes, fuente, pc, resultado>>
    /\ UNCHANGED fueraDelOptimizador

\* ---------------------------------------------------------------------------
\* Step 2: await Promise.all(preApiPromises.map(async (item) => ...))
\* ---------------------------------------------------------------------------

\* map() runs every callback up to its await item.GdPromise; the function
\* then suspends on Promise.all
EsperarTodas ==
    /\ pc = "loop"
    /\ i > Len(mesesData)
    /\ preApiPromises' = [k \in 1..Len(preApiPromises) |->
                             [preApiPromises[k] EXCEPT !.callback = "awaiting"]]
    /\ pc' = "await"
    /\ UNCHANGED <<invocaciones, fueraDeOrden, resultadoAnterior, latitudGrados, diaDelMes, fuente, i, resultado>>
    /\ UNCHANGED fueraDelOptimizador

\* TryMes that stores the promise instead of the awaited number in Gd_kWh
TryMesSinNumero(item, Gd) ==
    [item EXCEPT !.GdPromise = "fulfilled", !.callback = "returned"]

\* try { item.Gd_kWh = await item.GdPromise; ... Kd, Dd, Id ... }
TryMes(item, Gd) ==
    LET c == calcularComponentesHorizontales(Gd, item.G0d_kWh)
    IN  [item EXCEPT !.GdPromise = "fulfilled", !.Gd_kWh = Gd,
                     !.Kd = c.Kd, !.Dd = c.Dd, !.Id = c.Id,
                     !.callback = "returned"]

\* CatchMes that logs and rethrows
CatchMesRelanza(item) ==
    [item EXCEPT !.GdPromise = "rejected", !.callback = "threw"]

\* catch (error) { console.error(...); item.Gd_kWh = 0; }
CatchMes(item) ==
    [item EXCEPT !.GdPromise = "rejected", !.Gd_kWh = 0, !.callback = "returned"]

\* The callback of one month, resumed when its GdPromise settles
CallbackMes(item, respuesta) ==
    IF respuesta = Rechazo THEN CatchMes(item) ELSE TryMes(item, ResolverGd(respuesta))

\* The request of an earlier month is still pending when that of the k-th settles
HayAnteriorPendiente(k) == \E l \in 1..(k - 1) : preApiPromises[l].callback = "awaiting"

\* The request of the k-th object settles and its callback runs to its end.
\* Callbacks run only while the function is suspended on Promise.all.
Completar(k) ==
    /\ pc = "await"
    /\ preApiPromises[k].callback = "awaiting"
    /\ preApiPromises' = [preApiPromises EXCEPT
                             ![k] = CallbackMes(@, fuente[preApiPromises[k].mes])]
    /\ fueraDeOrden' = (fueraDeOrden \/ HayAnteriorPendiente(k))
    /\ UNCHANGED <<invocaciones, resultadoAnterior, latitudGrados, diaDelMes, fuente, pc, i, resultado>>
    /\ UNCHANGED fueraDelOptimizador

\* ---------------------------------------------------------------------------
\* Steps 3 and 4: valid months, minimum-months guard, tilt search, result
\* ---------------------------------------------------------------------------

\* MesValido without the Gd_kWh > 0 test
MesValidoSinPositivo(item) == TypeofNumber(item.Gd_kWh)

\* resultsRaw.filter(item => typeof item.Gd_kWh === 'number' && item.Gd_kWh > 0)
MesValido(item) == TypeofNumber(item.Gd_kWh) /\ Positivo(item.Gd_kWh)

FiltrarValidos(resultsRaw) == SelectSeq(resultsRaw, MesValido)

\* if (datosBaseValidos.length < 10)
MIN_MESES_VALIDOS == 10

\* GiAnualTotal / 1000 keeps MWH_PREC more decimal digits than SCALE, so that
\* the division loses nothing
MWH_PREC == 1000

\* let maxGiAnual = -1
MAX_GI_ANUAL_INICIAL == -1 * SCALE * MWH_PREC

\* The datosBaseValidos.forEach of one candidate angle: GiAnualTotal and
\* GiMensuales over the months whose Gi is a number
RECURSIVE AcumularGi(_, _, _, _, _)
AcumularGi(datos, k, betaRadianes, GiAnualTotal, GiMensuales) ==
    IF k > Len(datos)
    THEN [GiAnualTotal |-> GiAnualTotal, GiMensuales |-> GiMensuales]
    ELSE LET item == datos[k]
         IN  Con(calcularRadiacionInclinada(betaRadianes, item, latitudRadianes),
                 LAMBDA resultadoInclinado :
             IF TypeofNumber(resultadoInclinado.Gi) /\ NoEsNaN(resultadoInclinado.Gi)
             THEN AcumularGi(datos, k + 1, betaRadianes,
                             GiAnualTotal + resultadoInclinado.Gi * item.diasEnMes,
                             Append(GiMensuales, resultadoInclinado.Gi))
             ELSE AcumularGi(datos, k + 1, betaRadianes, GiAnualTotal, GiMensuales))

\* Math.min(...GiMensuales)
RECURSIVE MathMin(_)
MathMin(xs) ==
    IF xs = <<>> THEN Infinity
    ELSE Con(MathMin(Tail(xs)), LAMBDA resto : Min(Head(xs), resto))

\* MejoraMaximo with the comparison inverted
MejoraMaximoInvertido(GiAnualMWh, maxGiAnual) == GiAnualMWh < maxGiAnual

\* if (GiAnualMWh > maxGiAnual)
MejoraMaximo(GiAnualMWh, maxGiAnual) == GiAnualMWh > maxGiAnual

\* The entry one iteration of the tilt loop pushes to resultadosAnuales
ResultadoAnual(datos, betaGrados) ==
    Con(AcumularGi(datos, 1, GradosARadianes(betaGrados), 0, <<>>), LAMBDA a :
        [beta |-> betaGrados,
         GiAnual |-> (a.GiAnualTotal * MWH_PREC) \div 1000,
         GiMin |-> MathMin(a.GiMensuales)])

\* resultadosAnuales after the loop
\* for (let betaGrados = 0; betaGrados <= 90; betaGrados += 5)
ResultadosAnuales(datos) == [n \in 1..19 |-> ResultadoAnual(datos, 5 * (n - 1))]

\* The selection the same loop makes, iteration n of it: maxGiAnual and
\* anguloOptimo are replaced when the candidate's GiAnualMWh is greater
RECURSIVE BuscarAngulo(_, _, _, _)
BuscarAngulo(resultadosAnuales, n, maxGiAnual, anguloOptimo) ==
    IF n > Len(resultadosAnuales)
    THEN [maxGiAnual |-> maxGiAnual, anguloOptimo |-> anguloOptimo,
          resultadosAnuales |-> resultadosAnuales]
    ELSE IF MejoraMaximo(resultadosAnuales[n].GiAnual, maxGiAnual)
         THEN BuscarAngulo(resultadosAnuales, n + 1,
                           resultadosAnuales[n].GiAnual, resultadosAnuales[n].beta)
         ELSE BuscarAngulo(resultadosAnuales, n + 1, maxGiAnual, anguloOptimo)

\* resultadosAnuales.find(res => res.beta === anguloOptimo), then its GiMin or 0
GiMinDelOptimo(resultadosAnuales, anguloOptimo) ==
    IF \E k \in 1..Len(resultadosAnuales) : resultadosAnuales[k].beta = anguloOptimo
    THEN LET k == CHOOSE j \in 1..Len(resultadosAnuales) :
                      /\ resultadosAnuales[j].beta = anguloOptimo
                      /\ \A h \in 1..(j - 1) : resultadosAnuales[h].beta # anguloOptimo
         IN  resultadosAnuales[k].GiMin
    ELSE 0

\* datosBaseValidos.map(item => ({...item, Gi, Rb, Id_beta, Dd_beta, ...}))
ResultadosMensualesFinal(datos, anguloOptimo) ==
    IF anguloOptimo # Null
    THEN [k \in 1..Len(datos) |->
             LET r == calcularRadiacionInclinada(GradosARadianes(anguloOptimo),
                                                 datos[k], latitudRadianes)
             IN  [mes |-> datos[k].mes, diasEnMes |-> datos[k].diasEnMes,
                  Gd_kWh |-> datos[k].Gd_kWh, G0d_kWh |-> datos[k].G0d_kWh,
                  Gi |-> r.Gi, Rb |-> r.Rb, Id_beta |-> r.Id_beta,
                  Dd_beta |-> r.Dd_beta]]
    ELSE <<>>

\* The value returned once Promise.all has resolved with resultsRaw
Optimizar(resultsRaw) ==
    Con(FiltrarValidos(resultsRaw), LAMBDA datosBaseValidos :
        IF Len(datosBaseValidos) < MIN_MESES_VALIDOS
        THEN [anguloOptimo |-> Null, GiMinMensual |-> 0, GiAnualMWh |-> 0,
              resultadosMensuales |-> <<>>]
        ELSE Con(Con(ResultadosAnuales(datosBaseValidos), LAMBDA resultadosAnuales :
                     BuscarAngulo(resultadosAnuales, 1, MAX_GI_ANUAL_INICIAL, Null)),
                 LAMBDA b :
                 [anguloOptimo |-> b.anguloOptimo,
                  GiMinMensual |-> GiMinDelOptimo(b.resultadosAnuales, b.anguloOptimo),
                  GiAnualMWh |-> b.maxGiAnual,
                  resultadosMensuales |->
                      ResultadosMensualesFinal(datosBaseValidos, b.anguloOptimo)]))

\* TodasAsentadas that awaits the first callback only
PrimeraAsentada(items) ==
    IF Len(items) = 0 THEN TRUE ELSE items[1].callback = "returned"

\* TodasAsentadas as Promise.race would have it: one callback has returned
AlgunaAsentada(items) == \E k \in 1..Len(items) : items[k].callback = "returned"

\* Promise.all resolves when every callback has returned
TodasAsentadas(items) == \A k \in 1..Len(items) : items[k].callback = "returned"

\* Promise.all rejects as soon as one callback has thrown
AlgunaRechazada(items) == \E k \in 1..Len(items) : items[k].callback = "threw"

\* The function resumes after await Promise.all(...): it throws what the
\* rejected callback threw, or runs the aggregation and returns
Agregar ==
    /\ pc = "await"
    /\ AlgunaRechazada(preApiPromises) \/ TodasAsentadas(preApiPromises)
    /\ IF AlgunaRechazada(preApiPromises)
       THEN /\ pc' = "rejected"
            /\ UNCHANGED resultado
       ELSE /\ pc' = "done"
            /\ resultado' = Optimizar(preApiPromises)
    /\ UNCHANGED <<invocaciones, fueraDeOrden, resultadoAnterior, latitudGrados, diaDelMes, fuente, i, preApiPromises>>
    /\ UNCHANGED fueraDelOptimizador

\* ---------------------------------------------------------------------------
\* obtenerGdOpenMeteo(lat, lon, dn, maxRetries): the retry loop
\* ---------------------------------------------------------------------------

\* What one fetch attempt can meet.  Each failure is the throw it leads to:
\*   "red"     fetch(url) rejects (network error)
\*   "http"    !response.ok
\*   "json"    response.json() rejects
\*   "reason"  data.reason is set
\*   "sinDatos" data.daily?.shortwave_radiation_sum missing or empty
\*   "nulo"    value_MJ is null or undefined
FallosDeIntento == {"red", "http", "json", "reason", "sinDatos", "nulo"}

\* Usable values of value_MJ (MJ/m2, scaled); 0 is a value
ValoresMJ == {0, 14400}

\* for (let attempt = 0; attempt < maxRetries; attempt++)
EnBucle(a, m) == a < m

\* QuedaReintento that gives up one attempt early
QuedaReintentoCorto(a, m) == a < m - 2

\* QuedaReintento that also waits after the last permitted attempt
QuedaReintentoLargo(a, m) == a < m

\* if (attempt < maxRetries - 1): another attempt follows
QuedaReintento(a, m) == a < m - 1

\* 1000 * Math.pow(2, attempt)
RECURSIVE Pow2(_)
Pow2(n) == IF n <= 0 THEN 1 ELSE 2 * Pow2(n - 1)

\* Retardo growing linearly instead of doubling
RetardoLineal(a) == 1000 * (a + 1)

Retardo(a) == 1000 * Pow2(a)

\* throw new Error(`Fallo definitivo de API: ${error.message}. ...`)
ErrorDefinitivo(causa) ==
    [tipo |-> "error", mensaje |-> "Fallo definitivo de API", causa |-> causa,
     valor |-> Undefined]

\* throw new Error("Error API/Conexion (OM) - Fallo en reintentos.")
ErrorReintentos ==
    [tipo |-> "error", mensaje |-> "Fallo en reintentos", causa |-> "ninguna",
     valor |-> Undefined]

\* return value_MJ * MJ_A_KWH
ValorDevuelto(value_MJ) ==
    [tipo |-> "number", mensaje |-> "", causa |-> "ninguna", valor |-> ResolverGd(value_MJ)]

\* An attempt whose response carries a usable value: the call returns
IntentoExitoso(value_MJ) ==
    /\ fpc = "loop"
    /\ EnBucle(attempt, maxRetries)
    /\ respuestas' = Append(respuestas, "valor")
    /\ fpc' = "resolved"
    /\ fresultado' = ValorDevuelto(value_MJ)
    /\ UNCHANGED <<maxRetries, attempt, esperas>>
    /\ UNCHANGED fueraDeLaLlamada

\* An attempt that throws: the catch block waits and retries, or rethrows
IntentoFallido(fallo) ==
    /\ fpc = "loop"
    /\ EnBucle(attempt, maxRetries)
    /\ respuestas' = Append(respuestas, fallo)
    /\ IF QuedaReintento(attempt, maxRetries)
       THEN /\ fpc' = "wait"
            /\ esperas' = Append(esperas, Retardo(attempt))
            /\ UNCHANGED fresultado
       ELSE /\ fpc' = "rejected"
            /\ fresultado' = ErrorDefinitivo(fallo)
            /\ UNCHANGED esperas
    /\ UNCHANGED <<maxRetries, attempt>>
    /\ UNCHANGED fueraDeLaLlamada

\* The timer of the backoff fires: attempt++ and the loop goes on
FinEspera ==
    /\ fpc = "wait"
    /\ attempt' = attempt + 1
    /\ fpc' = "loop"
    /\ UNCHANGED <<maxRetries, respuestas, esperas, fresultado>>
    /\ UNCHANGED fueraDeLaLlamada

\* The loop condition is false: the throw after the loop
SalirBucle ==
    /\ fpc = "loop"
    /\ ~EnBucle(attempt, maxRetries)
    /\ fpc' = "rejected"
    /\ fresultado' = ErrorReintentos
    /\ UNCHANGED <<maxRetries, attempt, respuestas, esperas>>
    /\ UNCHANGED fueraDeLaLlamada

\* ---------------------------------------------------------------------------
\* Specifications
\* ---------------------------------------------------------------------------

SinResultado ==
    [anguloOptimo |-> Undefined, GiMinMensual |-> Undefined,
     GiAnualMWh |-> Undefined, resultadosMensuales |-> <<>>]

SinFResultado ==
    [tipo |-> "pendiente", mensaje |-> "", causa |-> "ninguna", valor |-> Undefined]

\* obtenerGdOpenMeteo(lat, lon, dn, maxRetries = 3)
MAX_RETRIES_DEFECTO == 3

\* Largest maxRetries a caller passes
MaxMaxRetries == 4

\* Largest number of calls of calcularRadiacionOptima in one page session
MaxInvocaciones == 3

\* What the caller holds of the call that ended, for a call that repeats
\* its arguments and meets the same data
LoQueDevolvio ==
    IF latitudGrados' = latitudGrados /\ diaDelMes' = diaDelMes /\ fuente' = fuente
    THEN resultado
    ELSE SinResultado

\* Reinvocar with preApiPromises kept at module level instead of per call
ReinvocarSinVaciar ==
    /\ pc \in {"done", "rejected"}
    /\ invocaciones < MaxInvocaciones
    /\ invocaciones' = invocaciones + 1
    /\ latitudGrados' \in LatitudesGrados
    /\ diaDelMes' \in DiasDelMes
    /\ fuente' \in Fuentes
    /\ pc' = "loop"
    /\ i' = 1
    /\ resultado' = SinResultado
    /\ fueraDeOrden' = FALSE
    /\ resultadoAnterior' = LoQueDevolvio
    /\ UNCHANGED preApiPromises
    /\ UNCHANGED fueraDelOptimizador

\* The function is called again after it returned: the arguments are new,
\* const preApiPromises = [] and the loop variable are fresh, mesesData is
\* the same constant
Reinvocar ==
    /\ pc \in {"done", "rejected"}
    /\ invocaciones < MaxInvocaciones
    /\ invocaciones' = invocaciones + 1
    /\ latitudGrados' \in LatitudesGrados
    /\ diaDelMes' \in DiasDelMes
    /\ fuente' \in Fuentes
    /\ pc' = "loop"
    /\ i' = 1
    /\ preApiPromises' = <<>>
    /\ resultado' = SinResultado
    /\ fueraDeOrden' = FALSE
    /\ resultadoAnterior' = LoQueDevolvio
    /\ UNCHANGED fueraDelOptimizador

InitOptimizador ==
    /\ pc = "loop"
    /\ i = 1
    /\ preApiPromises = <<>>
    /\ resultado = SinResultado
    /\ invocaciones = 1
    /\ fueraDeOrden = FALSE
    /\ resultadoAnterior = SinResultado

InitFetch ==
    /\ attempt = 0
    /\ fpc = "loop"
    /\ respuestas = <<>>
    /\ esperas = <<>>
    /\ fresultado = SinFResultado

\* inclinacion-display and resultado-anual before any run has written them
SinMostrar == [grados |-> Undefined, fallo |-> FALSE]

Vacio == [tipo |-> "vacio", anguloOptimo |-> Null, GiMinMensual |-> 0]

\* A result area of the sizing sections: empty, the 'revise los datos'
\* message, or sizing values computed from the field values Et and HPS
Area(tipo, Et, HPS) == [tipo |-> tipo, Et |-> Et, HPS |-> HPS]

AreaVacia == Area("vacio", 0, 0)

AreaMensaje == Area("mensaje", 0, 0)

\* The page after DOMContentLoaded, before any event
PaginaEnReposo ==
    /\ corridas = <<>>
    /\ spinner = "none"
    /\ resultadosMensualesGlobales = <<>>
    /\ inclinacionDisplay = SinMostrar
    /\ inputHps = 0
    /\ inputEt = 0
    /\ resultadoAnual = Vacio
    /\ resultadoMatriz = AreaVacia
    /\ resultadoBaterias = AreaVacia
    /\ resultadoRegulador = AreaVacia
    /\ resultadoCableado = AreaVacia
    /\ solicitudesPais = 0
    /\ llamadasOptima = 0

\* red.html after DOMContentLoaded, before the form is submitted
RedEnReposo ==
    /\ gpc = "idle"
    /\ envio = [latitudGrados |-> NaN, longitudGrados |-> NaN, HSP_anual |-> NaN,
                retorno |-> [anguloOptimo |-> Undefined, GiMinMensual |-> Undefined,
                             GiAnualMWh |-> Undefined, resultadosMensuales |-> <<>>]]
    /\ gridResults = [tipo |-> "vacio", mensaje |-> "", HSP_anual |-> Undefined,
                      potenciaPico_kWp |-> Undefined, numModulos |-> Undefined]

InitUI ==
    /\ campos = [latitud |-> 10, longitud |-> -66, diaDelMes |-> 15]
    /\ ET_Global_Wh = 0
    /\ manuales = FALSE
    /\ PaginaEnReposo
    /\ formulario = [latitud |-> NaN, longitud |-> NaN, hspAnual |-> NaN,
                     inclinacion |-> NaN, consumoAnual_kWh |-> 0,
                     rendimientoSistema |-> NaN, potenciaModulo_Wp |-> NaN]
    /\ RedEnReposo

\* No formula has been applied
SinEntrada == [latitudRadianes |-> 0, dn |-> 1, Gd_kWh |-> 0, G0d_kWh |-> 0, betaGrados |-> 0]

SinSalida == [aplicada |-> "ninguna"]

InitFormulas ==
    /\ entrada = SinEntrada
    /\ aplicada = "ninguna"
    /\ salida = SinSalida

\* One run of calcularRadiacionOptima
Init ==
    /\ latitudGrados \in LatitudesGrados
    /\ diaDelMes \in DiasDelMes
    /\ fuente \in Fuentes
    /\ InitOptimizador
    /\ maxRetries = MAX_RETRIES_DEFECTO
    /\ InitFetch
    /\ InitFormulas
    /\ InitUI

Next ==
    \/ OmitirMes
    \/ EmitirSolicitud
    \/ EsperarTodas
    \/ \E k \in 1..Len(preApiPromises) : Completar(k)
    \/ Agregar
    \/ Reinvocar

Spec == Init /\ [][Next]_vars

\* One call of obtenerGdOpenMeteo
InitLlamada ==
    /\ latitudGrados = 10
    /\ diaDelMes = 15
    /\ fuente = [m \in Meses |-> PerfilMJ[m]]
    /\ InitOptimizador
    /\ maxRetries \in 0..MaxMaxRetries
    /\ InitFetch
    /\ InitFormulas
    /\ InitUI

NextLlamada ==
    \/ \E v \in ValoresMJ : IntentoExitoso(v)
    \/ \E f \in FallosDeIntento : IntentoFallido(f)
    \/ FinEspera
    \/ SalirBucle

SpecLlamada == InitLlamada /\ [][NextLlamada]_vars

\* ---------------------------------------------------------------------------
\* The radiation formulas applied to given arguments (SpecFormulas)
\* ---------------------------------------------------------------------------

\* Latitudes (degrees) the formulas are applied to, besides NaN
LatitudesFormula == {-60, 10, 89}

\* Days of the year: mid January, mid June, mid December
DiasDelAnio == {15, 166, 349}

\* Global horizontal values (kWh/m2 scaled): no number, none, overcast, clear
ValoresGd == {NaN, 0, 300, 4000, 7500}

\* Extraterrestrial values (kWh/m2 scaled) given to calcularComponentesHorizontales
ValoresG0d == {0, 5000, 10000}

\* Tilts (degrees)
Inclinaciones == {0, 45, 90}

\* The month object calcularRadiacionInclinada receives: the fields the
\* request loop computes and those the month's callback adds
ItemDe(e) ==
    LET delta_rad == calcularDelta(e.dn)
        g == calcularG0d(e.latitudRadianes, delta_rad, e.dn)
        c == calcularComponentesHorizontales(e.Gd_kWh, g.G0d_kWh)
    IN  [dn |-> e.dn, delta |-> delta_rad, E0 |-> g.E0, omega_s |-> g.omega_s,
         G0d_kWh |-> g.G0d_kWh, Gd_kWh |-> e.Gd_kWh,
         Kd |-> c.Kd, Dd |-> c.Dd, Id |-> c.Id]

AplicarComponentes ==
    /\ aplicada = "ninguna"
    /\ aplicada' = "calcularComponentesHorizontales"
    /\ salida' = calcularComponentesHorizontales(entrada.Gd_kWh, entrada.G0d_kWh)
    /\ UNCHANGED entrada
    /\ UNCHANGED fueraDeLasFormulas

AplicarG0d ==
    /\ aplicada = "ninguna"
    /\ aplicada' = "calcularG0d"
    /\ salida' = calcularG0d(entrada.latitudRadianes, calcularDelta(entrada.dn), entrada.dn)
    /\ UNCHANGED entrada
    /\ UNCHANGED fueraDeLasFormulas

AplicarInclinada ==
    /\ aplicada = "ninguna"
    /\ aplicada' = "calcularRadiacionInclinada"
    /\ salida' = calcularRadiacionInclinada(GradosARadianes(entrada.betaGrados),
                                            ItemDe(entrada), entrada.latitudRadianes)
    /\ UNCHANGED entrada
    /\ UNCHANGED fueraDeLasFormulas

InitAplicacion ==
    /\ latitudGrados = 10
    /\ diaDelMes = 15
    /\ fuente = [m \in Meses |-> PerfilMJ[m]]
    /\ InitOptimizador
    /\ maxRetries = MAX_RETRIES_DEFECTO
    /\ InitFetch
    /\ entrada \in [latitudRadianes : {NaN} \cup {GradosARadianes(g) : g \in LatitudesFormula},
                    dn : DiasDelAnio, Gd_kWh : ValoresGd, G0d_kWh : ValoresG0d,
                    betaGrados : Inclinaciones]
    /\ aplicada = "ninguna"
    /\ salida = SinSalida
    /\ InitUI

NextFormulas == AplicarComponentes \/ AplicarG0d \/ AplicarInclinada

SpecFormulas == InitAplicacion /\ [][NextFormulas]_vars

\* ---------------------------------------------------------------------------
\* ejecutarCalculos and the events that start it (main_script.js, SpecUI)
\* ---------------------------------------------------------------------------

\* Values parseFloat / parseInt read from the three fields
ValoresDeCampo ==
    [latitud |-> {NaN, 10, 40}, longitud |-> {NaN, -66}, diaDelMes |-> {NaN, 15}]

\* Values handleConsumptionChange stores in ET_Global_Wh
Consumos == {0, 2000}

\* Largest number of runs of ejecutarCalculos started
MaxCorridas == 2

\* EntradaInvalida that forgets the day
EntradaInvalidaSinDia(latitud, longitud, dia) == latitud = NaN \/ longitud = NaN

\* if (isNaN(latitudGrados) || isNaN(longitudGrados) || isNaN(diaDelMes))
EntradaInvalida(latitud, longitud, dia) == latitud = NaN \/ longitud = NaN \/ dia = NaN

\* x.toFixed(2), as a number
ToFixed2(x) == ((x + 5) \div 10) * 10

Abs(x) == IF x < 0 THEN -x ELSE x

\* What await calcularRadiacionOptima(latitudGrados, ...) can resolve with:
\* the no-optimum value, or an optimum that depends on the latitude
Retornos(latitud) ==
    { [anguloOptimo |-> Null, GiMinMensual |-> 0, GiAnualMWh |-> 0,
       resultadosMensuales |-> <<>>],
      [anguloOptimo |-> 5 * (Abs(latitud) \div 5),
       GiMinMensual |-> 4402 - 40 * Abs(latitud),
       GiAnualMWh |-> 2000 - 10 * Abs(latitud),
       resultadosMensuales |-> <<[mes |-> 1, Gi |-> 4402 - 40 * Abs(latitud)]>>] }

SinRetorno == [anguloOptimo |-> Undefined, GiMinMensual |-> Undefined,
               GiAnualMWh |-> Undefined, resultadosMensuales |-> <<>>]

EnEspera(corrida) == corrida.pc \in {"awaitPais", "awaitOptima"}

\* The four result areas, as the sizing functions read and write them
Areas == [matriz |-> resultadoMatriz, baterias |-> resultadoBaterias,
          regulador |-> resultadoRegulador, cableado |-> resultadoCableado]

\* calcularCableadoFinal: I_dc is read from input-ig-final, an element of the
\* values shown in resultado-regulador
calcularCableadoFinal(d) ==
    IF d.regulador.tipo # "valores"
    THEN [d EXCEPT !.cableado = AreaMensaje]
    ELSE [d EXCEPT !.cableado = Area("valores", d.regulador.Et, d.regulador.HPS)]

\* calcularCorrienteReguladorFinal: Np is read from input-np-final, an
\* element of the values shown in resultado-matriz
calcularCorrienteReguladorFinal(d, man) ==
    IF d.matriz.tipo # "valores" \/ ~man
    THEN calcularCableadoFinal([d EXCEPT !.regulador = AreaMensaje])
    ELSE calcularCableadoFinal(
             [d EXCEPT !.regulador = Area("valores", d.matriz.Et, d.matriz.HPS)])

\* calcularNumeroPaneles with the values Et_kwh of input-et and HPS_kwh of
\* input-hps
calcularNumeroPaneles(d, Et_kwh, HPS_kwh, man) ==
    IF Et_kwh <= 0 \/ HPS_kwh <= 0 \/ ~man
    THEN calcularCorrienteReguladorFinal([d EXCEPT !.matriz = AreaMensaje], man)
    ELSE calcularCorrienteReguladorFinal(
             [d EXCEPT !.matriz = Area("valores", Et_kwh, HPS_kwh)], man)

\* calcularCapacidadBaterias with the value consumoDiarioKWh of input-et
calcularCapacidadBaterias(d, consumoDiarioKWh, man) ==
    IF consumoDiarioKWh <= 0 \/ ~man
    THEN [d EXCEPT !.baterias = AreaMensaje]
    ELSE calcularCorrienteReguladorFinal(
             [d EXCEPT !.baterias = Area("valores", consumoDiarioKWh, 0)], man)

\* The areas resultado-baterias, resultado-regulador and resultado-cableado
\* set to ''
Limpiar(d) ==
    [d EXCEPT !.baterias = AreaVacia, !.regulador = AreaVacia, !.cableado = AreaVacia]

\* The branch ET_requerida <= 0 of ejecutarCalculos
SinConsumo(d, Et_kwh, HPS_kwh, man) ==
    calcularCableadoFinal(
        calcularCorrienteReguladorFinal(
            calcularCapacidadBaterias(
                calcularNumeroPaneles(Limpiar(d), Et_kwh, HPS_kwh, man), Et_kwh, man), man))

\* The final sizing calls after an optimum was found
DimensionamientoFinal(d, Et_kwh, HPS_kwh, man) ==
    calcularCorrienteReguladorFinal(
        calcularCapacidadBaterias(
            calcularNumeroPaneles(d, Et_kwh, HPS_kwh, man), Et_kwh, man), man)

\* The else branch: no irradiance to size the generator with
SinIrradiancia(d, Et_kwh, HPS_kwh, man) ==
    calcularNumeroPaneles(Limpiar(d), Et_kwh, HPS_kwh, man)

\* The areas become d
Escribir(d) ==
    /\ resultadoMatriz' = d.matriz
    /\ resultadoBaterias' = d.baterias
    /\ resultadoRegulador' = d.regulador
    /\ resultadoCableado' = d.cableado

\* ejecutarCalculos from its entry to its first await or return, with the
\* field values cs and ET_Global_Wh = et
Arrancar(cs, et) ==
    LET nueva(pcv) ==
            [pc |-> pcv, latitudGrados |-> cs.latitud, longitudGrados |-> cs.longitud,
             diaDelMes |-> cs.diaDelMes, ET_requerida |-> et,
             solapada |-> \E r \in 1..Len(corridas) : EnEspera(corridas[r]),
             retorno |-> SinRetorno]
    IN  /\ resultadoAnual' = Vacio
        /\ IF et <= 0
           THEN /\ corridas' = Append(corridas, nueva("sinConsumo"))
                /\ spinner' = "none"
                /\ Escribir(SinConsumo(Areas, inputEt, inputHps, manuales))
                /\ UNCHANGED solicitudesPais
           ELSE IF EntradaInvalida(cs.latitud, cs.longitud, cs.diaDelMes)
           THEN /\ corridas' = Append(corridas, nueva("rechazada"))
                /\ spinner' = "none"
                /\ Escribir(Areas)
                /\ UNCHANGED solicitudesPais
           ELSE /\ corridas' = Append(corridas, nueva("awaitPais"))
                /\ spinner' = "block"
                /\ Escribir(Areas)
                /\ solicitudesPais' = solicitudesPais + 1
        /\ UNCHANGED <<resultadosMensualesGlobales, inclinacionDisplay, inputHps,
                       inputEt, manuales, llamadasOptima>>

\* An input event on one of the three fields, or a click on the button (the
\* value stays): the listener runs ejecutarCalculos
EventoCampo(campo, valor) ==
    /\ Len(corridas) < MaxCorridas
    /\ campos' = [campos EXCEPT ![campo] = valor]
    /\ UNCHANGED ET_Global_Wh
    /\ Arrancar([campos EXCEPT ![campo] = valor], ET_Global_Wh)
    /\ UNCHANGED fueraDeLaPagina

\* handleConsumptionChange(newET_Wh)
EventoConsumo(newET_Wh) ==
    /\ Len(corridas) < MaxCorridas
    /\ ET_Global_Wh' = newET_Wh
    /\ UNCHANGED campos
    /\ Arrancar(campos, newET_Wh)
    /\ UNCHANGED fueraDeLaPagina

\* Run r resumes after await obtenerPaisPorCoordenadas(...) and calls
\* calcularRadiacionOptima, which sends the month requests
ResolverPais(r) ==
    /\ corridas[r].pc = "awaitPais"
    /\ corridas' = [corridas EXCEPT ![r].pc = "awaitOptima"]
    /\ llamadasOptima' = llamadasOptima + 1
    /\ UNCHANGED <<campos, ET_Global_Wh, spinner, resultadosMensualesGlobales,
                   inclinacionDisplay, inputHps, resultadoAnual, solicitudesPais,
                   inputEt, manuales, resultadoMatriz, resultadoBaterias,
                   resultadoRegulador, resultadoCableado>>
    /\ UNCHANGED fueraDeLaPagina

\* Run r resumes after await calcularRadiacionOptima(...) with res and runs
\* to its end
Mostrar(r, res) ==
    /\ resultadosMensualesGlobales' = res.resultadosMensuales
    /\ inclinacionDisplay' =
          IF res.anguloOptimo # Null
          THEN [grados |-> res.anguloOptimo, fallo |-> FALSE]
          ELSE [grados |-> Abs(corridas[r].latitudGrados), fallo |-> TRUE]
    /\ IF res.anguloOptimo # Null /\ Positivo(res.GiMinMensual)
       THEN /\ inputEt' = ToFixed2(corridas[r].ET_requerida)
            /\ inputHps' = ToFixed2(res.GiMinMensual)
            /\ resultadoAnual' = [tipo |-> "resumen", anguloOptimo |-> res.anguloOptimo,
                                  GiMinMensual |-> ToFixed2(res.GiMinMensual)]
            /\ Escribir(DimensionamientoFinal(Areas, ToFixed2(corridas[r].ET_requerida),
                                              ToFixed2(res.GiMinMensual), manuales))
       ELSE /\ UNCHANGED <<inputEt, inputHps>>
            /\ resultadoAnual' = [tipo |-> "error", anguloOptimo |-> Null, GiMinMensual |-> 0]
            /\ Escribir(SinIrradiancia(Areas, inputEt, inputHps, manuales))
    /\ spinner' = "none"
    /\ corridas' = [corridas EXCEPT ![r].pc = "done", ![r].retorno = res]

ResolverOptima(r) ==
    /\ corridas[r].pc = "awaitOptima"
    /\ \E res \in Retornos(corridas[r].latitudGrados) : Mostrar(r, res)
    /\ UNCHANGED <<campos, ET_Global_Wh, solicitudesPais, llamadasOptima, manuales>>
    /\ UNCHANGED fueraDeLaPagina

InitPagina ==
    /\ latitudGrados = 10
    /\ diaDelMes = 15
    /\ fuente = [m \in Meses |-> PerfilMJ[m]]
    /\ InitOptimizador
    /\ maxRetries = MAX_RETRIES_DEFECTO
    /\ InitFetch
    /\ InitFormulas
    /\ campos \in [latitud : ValoresDeCampo.latitud, longitud : ValoresDeCampo.longitud,
                   diaDelMes : ValoresDeCampo.diaDelMes]
    /\ ET_Global_Wh \in Consumos
    /\ manuales \in BOOLEAN
    /\ PaginaEnReposo
    /\ formulario = [latitud |-> NaN, longitud |-> NaN, hspAnual |-> NaN,
                     inclinacion |-> NaN, consumoAnual_kWh |-> 0,
                     rendimientoSistema |-> NaN, potenciaModulo_Wp |-> NaN]
    /\ RedEnReposo

NextUI ==
    \/ \E campo \in DOMAIN ValoresDeCampo : \E valor \in ValoresDeCampo[campo] :
          EventoCampo(campo, valor)
    \/ \E newET_Wh \in Consumos : EventoConsumo(newET_Wh)
    \/ \E r \in 1..Len(corridas) : ResolverPais(r)
    \/ \E r \in 1..Len(corridas) : ResolverOptima(r)

SpecUI == InitPagina /\ [][NextUI]_vars

\* ---------------------------------------------------------------------------
\* Properties of calcularRadiacionOptima (Spec)
\* ---------------------------------------------------------------------------

\* The months the request loop includes
Incluidos == {m \in Meses : 1 <= diaDelMes /\ diaDelMes <= mesesData[m].dias}

\* The months with a valid horizontal sample: the request resolved with a
\* numeric Gd > 0
ConMuestraValida ==
    {m \in Incluidos : fuente[m] # Rechazo /\ fuente[m] # NaN /\ Mul(fuente[m], MJ_A_KWH) > 0}

Terminado == pc \in {"done", "rejected"}

NoOptimo ==
    [anguloOptimo |-> Null, GiMinMensual |-> 0, GiAnualMWh |-> 0,
     resultadosMensuales |-> <<>>]

Candidatos == {5 * n : n \in 0..18}

\* C1: when fewer than 10 months have a valid horizontal sample once every
\* request has settled, the function returns (does not throw) the no-optimum
\* value: null angle, GiMinMensual 0, GiAnualMWh 0, no monthly results.
C1_MenosDeDiezMeses ==
    (Terminado /\ Cardinality(ConMuestraValida) < 10)
        => (pc = "done" /\ resultado = NoOptimo)

\* Nine of the twelve requested months are valid and the run has returned
C1_Witness ==
    /\ pc = "done"
    /\ Cardinality(Incluidos) = 12
    /\ Cardinality(ConMuestraValida) = 9
    /\ resultado.anguloOptimo = Null

\* Annual yield of a candidate angle over the months the search used: the sum
\* of Gi x daysInMonth over the valid months whose Gi is a number
GiDias(k, betaGrados) ==
    IF preApiPromises[k].mes \notin ConMuestraValida THEN 0
    ELSE Con(calcularRadiacionInclinada(GradosARadianes(betaGrados),
                                        preApiPromises[k], latitudRadianes).Gi,
             LAMBDA Gi : IF Gi = NaN THEN 0 ELSE Gi * preApiPromises[k].diasEnMes)

RECURSIVE SumaGiDias(_, _)
SumaGiDias(k, betaGrados) ==
    IF k = 0 THEN 0 ELSE GiDias(k, betaGrados) + SumaGiDias(k - 1, betaGrados)

RendimientoAnual(betaGrados) == SumaGiDias(Len(preApiPromises), betaGrados)

BusquedaHecha == pc = "done" /\ Cardinality(ConMuestraValida) >= 10

MesesDevueltos ==
    [k \in 1..Len(resultado.resultadosMensuales) |-> resultado.resultadosMensuales[k].mes]

EnOrdenDeCalendario(ms) == \A j, k \in 1..Len(ms) : j < k => ms[j] < ms[k]

\* C3: with at least 10 valid months the function returns a non-null angle
\* out of {0,5,...,90} and exactly one monthly result per valid month, in
\* calendar order, whatever order the requests completed in.
C3_UnResultadoPorMesValido ==
    (Terminado /\ Cardinality(ConMuestraValida) >= 10) =>
        /\ pc = "done"
        /\ resultado.anguloOptimo # Null
        /\ resultado.anguloOptimo \in Candidatos
        /\ Len(MesesDevueltos) = Cardinality(ConMuestraValida)
        /\ {MesesDevueltos[k] : k \in 1..Len(MesesDevueltos)} = ConMuestraValida
        /\ EnOrdenDeCalendario(MesesDevueltos)

\* A run with a failed month and ten valid ones has returned its results
C3_Witness ==
    /\ pc = "done"
    /\ Cardinality(ConMuestraValida) = 10
    /\ \E m \in Incluidos : fuente[m] = Rechazo
    /\ Len(resultado.resultadosMensuales) = 10

\* The months whose request rejected
Rechazados == {m \in Incluidos : fuente[m] = Rechazo}

\* The month objects of the months whose request did not reject
SinRechazados == SelectSeq(preApiPromises, LAMBDA item : item.mes \notin Rechazados)

\* C4: a rejected month request never makes the function reject; the month
\* is left out of the valid set and the result is the one of the remaining
\* months alone.
C4_FalloDeMesNoEsFatal ==
    /\ pc # "rejected"
    /\ \A k \in 1..Len(preApiPromises) : preApiPromises[k].callback # "threw"
    /\ pc = "done" =>
          /\ \A k \in 1..Len(MesesDevueltos) : MesesDevueltos[k] \notin Rechazados
          /\ \A k \in 1..Len(preApiPromises) :
                preApiPromises[k].mes \in Rechazados => ~MesValido(preApiPromises[k])
          /\ resultado = Optimizar(SinRechazados)

\* A run in which two requests rejected has returned an optimum
C4_Witness ==
    /\ pc = "done"
    /\ Cardinality(Rechazados) = 2
    /\ resultado.anguloOptimo \in Candidatos

\* The month objects whose request has not settled yet
Pendientes == {k \in 1..Len(preApiPromises) : preApiPromises[k].GdPromise = "pending"}

\* C5: the aggregation starts only after every included month's request has
\* settled, and the completion of a request writes only to its own month's
\* object.
C5_AgregacionTrasTodas ==
    /\ [](pc = "done" => (Pendientes = {} /\ Len(preApiPromises) = Cardinality(Incluidos)))
    /\ [][(pc = "await" /\ pc' = "await") =>
            /\ resultado' = resultado
            /\ Len(preApiPromises') = Len(preApiPromises)
            /\ \E k \in 1..Len(preApiPromises) :
                  \A j \in 1..Len(preApiPromises) :
                      j # k => preApiPromises'[j] = preApiPromises[j]]_vars

\* The function has returned after all twelve requests settled, one of them
\* at least with a failure
C5_Witness ==
    /\ pc = "done"
    /\ Len(preApiPromises) = 12
    /\ Pendientes = {}
    /\ Rechazados # {}

\* The months whose request has been started
Emitidos == {preApiPromises[k].mes : k \in 1..Len(preApiPromises)}

\* C6: every included month's request is started before the function waits
\* for any of them: while a month is still to be requested no earlier request
\* has been awaited or has delivered its value.
C6_TodasEmitidasAntesDeEsperar ==
    /\ pc = "loop" =>
          \A k \in 1..Len(preApiPromises) :
              /\ preApiPromises[k].GdPromise = "pending"
              /\ preApiPromises[k].callback = "none"
              /\ preApiPromises[k].Gd_kWh = Undefined
    /\ pc # "loop" => Emitidos = Incluidos

\* All twelve requests are in flight and none has been answered
C6_Witness ==
    /\ pc = "await"
    /\ Cardinality(Emitidos) = 12
    /\ Cardinality(Pendientes) = 12

\* The month objects of polar-night months (extraterrestrial irradiation 0)
\* for which the data source delivered a positive horizontal value
NochePolarConDato ==
    {k \in 1..Len(preApiPromises) :
        /\ preApiPromises[k].G0d_kWh = 0
        /\ preApiPromises[k].omega_s = 0
        /\ preApiPromises[k].mes \in ConMuestraValida}

\* C10: a month whose extraterrestrial irradiation is 0 is excluded from the
\* valid set even when the data source returns a positive value for it: it
\* does not count toward the 10-month minimum and is not in
\* resultadosMensuales.
C10_NochePolarExcluida ==
    pc = "done" =>
        /\ \A k \in NochePolarConDato :
              \A j \in 1..Len(MesesDevueltos) : MesesDevueltos[j] # preApiPromises[k].mes
        /\ resultado.anguloOptimo # Null =>
              Cardinality(ConMuestraValida) - Cardinality(NochePolarConDato) >= 10

\* ---------------------------------------------------------------------------
\* Properties of obtenerGdOpenMeteo (SpecLlamada)
\* ---------------------------------------------------------------------------

\* Number of fetch attempts the call has made
Intentos == Len(respuestas)

LlamadaTerminada == fpc \in {"resolved", "rejected"}

\* The attempts that failed
IntentosFallidos == {k \in 1..Intentos : respuestas[k] \in FallosDeIntento}

\* C7: a call makes at most maxRetries fetch attempts, none after the first
\* attempt that yields a usable value, and every failed attempt, whatever the
\* failure, is followed by another attempt while fewer than maxRetries
\* attempts have been made.
C7_IntentosAcotados ==
    /\ Intentos <= maxRetries
    /\ \A k \in 1..Intentos : respuestas[k] = "valor" => k = Intentos
    /\ (Intentos >= 1 /\ respuestas[Intentos] = "valor") => fpc = "resolved"
    /\ (Intentos >= 1 /\ respuestas[Intentos] \in FallosDeIntento /\ Intentos < maxRetries)
          => fpc \in {"wait", "loop"}
    /\ (fpc = "rejected") => Intentos = maxRetries

\* A call with maxRetries 3 made its third attempt after two failures of
\* different kinds
C7_Witness ==
    /\ maxRetries = 3
    /\ Intentos = 3
    /\ respuestas[1] \in FallosDeIntento
    /\ respuestas[2] \in FallosDeIntento
    /\ respuestas[1] # respuestas[2]

\* C8: the wait after the k-th failed attempt (k from 0) is 1000 x 2^k ms,
\* so successive waits double; there is one wait after each failed attempt
\* that another attempt may follow, none after the last permitted attempt
\* and none after a successful one.
C8_EsperaExponencial ==
    /\ Len(esperas) >= 1 => esperas[1] = 1000
    /\ \A k \in 1..Len(esperas) : k > 1 => esperas[k] = 2 * esperas[k - 1]
    /\ Len(esperas) = Cardinality({k \in IntentosFallidos : k < maxRetries})
    /\ fpc = "wait" => (Intentos < maxRetries /\ respuestas[Intentos] \in FallosDeIntento)

\* A call with maxRetries 4 waited 1000, 2000 and 4000 ms and was rejected at
\* its fourth attempt without a further wait
C8_Witness ==
    /\ maxRetries = 4
    /\ esperas = <<1000, 2000, 4000>>
    /\ Intentos = 4
    /\ fpc = "rejected"

\* C9: when all maxRetries attempts fail the call rejects with an error that
\* carries the last attempt's failure message, never resolving with a value;
\* it resolves, with a number, only when an attempt returned a data value.
C9_RechazoConUltimoMensaje ==
    /\ (maxRetries >= 1 /\ Intentos = maxRetries /\ IntentosFallidos = 1..Intentos) =>
          /\ fpc = "rejected"
          /\ fresultado.tipo = "error"
          /\ fresultado.mensaje = "Fallo definitivo de API"
          /\ fresultado.causa = respuestas[Intentos]
          /\ fresultado.valor = Undefined
    /\ fpc = "resolved" =>
          /\ Intentos >= 1
          /\ respuestas[Intentos] = "valor"
          /\ fresultado.tipo = "number"
          /\ TypeofNumber(fresultado.valor)
    /\ fresultado.tipo = "number" => fpc = "resolved"

\* A call with the default maxRetries was rejected after three failures, the
\* last one a null value following two other failures
C9_Witness ==
    /\ maxRetries = MAX_RETRIES_DEFECTO
    /\ fpc = "rejected"
    /\ Intentos = 3
    /\ respuestas[3] = "nulo"
    /\ respuestas[1] # "nulo"
    /\ fresultado.causa = "nulo"

\* ---------------------------------------------------------------------------
\* Properties of the radiation formulas (SpecFormulas)
\* ---------------------------------------------------------------------------

AplicadaComponentes == aplicada = "calcularComponentesHorizontales"

AplicadaG0d == aplicada = "calcularG0d"

AplicadaInclinada == aplicada = "calcularRadiacionInclinada"

\* C11: for positive Gd and G0d, calcularComponentesHorizontales returns
\* Dd >= 0 and Id >= 0 with Dd + Id = Gd, also for a clearness index near 0
\* and for one clamped to 1.
C11_DescomposicionExacta ==
    (AplicadaComponentes /\ Positivo(entrada.Gd_kWh) /\ Positivo(entrada.G0d_kWh)) =>
        /\ salida.Dd >= 0
        /\ salida.Id >= 0
        /\ salida.Dd + salida.Id = entrada.Gd_kWh

\* The month given to calcularRadiacionInclinada has a usable sample
MuestraUsable(item) ==
    TypeofNumber(item.Gd_kWh) /\ Positivo(item.Gd_kWh) /\ Positivo(item.G0d_kWh)

\* C12: when Gd is not a positive number or G0d <= 0, every field of the
\* object calcularRadiacionInclinada returns (Rb, Id_beta, Dd_beta, Gi) is NaN.
C12_SinDatoTodoNaN ==
    (AplicadaInclinada /\ ~MuestraUsable(ItemDe(entrada))) =>
        /\ salida.Rb = NaN
        /\ salida.Id_beta = NaN
        /\ salida.Dd_beta = NaN
        /\ salida.Gi = NaN

\* C13: for a valid month and a tilt in [0, pi/2], Id_beta >= 0 and
\* Dd_beta >= 0, also when Rb is negative.
C13_ComponentesNoNegativas ==
    (AplicadaInclinada /\ MuestraUsable(ItemDe(entrada))
        /\ entrada.betaGrados >= 0 /\ entrada.betaGrados <= 90) =>
        /\ salida.Id_beta >= 0
        /\ salida.Dd_beta >= 0

\* -tan(lat) * tan(decl) of the arguments calcularG0d was applied to
ArgumentoArccos ==
    IF entrada.latitudRadianes = NaN
    THEN NaN
    ELSE -Mul(Tan(entrada.latitudRadianes), Tan(calcularDelta(entrada.dn)))

\* C14: calcularG0d returns a sunset hour angle that is never NaN: acos(arg)
\* when arg lies in [-1, 1], pi when arg < -1, and 0 with irradiation 0
\* otherwise (arg > 1 or arg NaN).
C14_AnguloHorarioEnTresCasos ==
    AplicadaG0d =>
        /\ salida.omega_s # NaN
        /\ (ArgumentoArccos # NaN /\ ArgumentoArccos >= -SCALE /\ ArgumentoArccos <= SCALE)
              => salida.omega_s = Acos(ArgumentoArccos)
        /\ (ArgumentoArccos # NaN /\ ArgumentoArccos < -SCALE)
              => salida.omega_s = PI
        /\ (ArgumentoArccos = NaN \/ ArgumentoArccos > SCALE)
              => (salida.omega_s = 0 /\ salida.G0d_kWh = 0)

\* calcularG0d was applied to a NaN latitude and answered polar night
C14_Witness ==
    /\ AplicadaG0d
    /\ entrada.latitudRadianes = NaN
    /\ salida.omega_s = 0
    /\ salida.G0d_kWh = 0

\* The three numeric cases were met as well
C14_WitnessDiaPolar ==
    /\ AplicadaG0d
    /\ ArgumentoArccos # NaN /\ ArgumentoArccos < -SCALE
    /\ salida.omega_s = PI

\* ---------------------------------------------------------------------------
\* Determinism and the months requested (Spec)
\* ---------------------------------------------------------------------------

\* The call that ended repeated the inputs of the call before it
RepiteEntradas == pc = "done" /\ resultadoAnterior # SinResultado

\* C15: two runs of calcularRadiacionOptima with the same latitude and day in
\* which the data source answers the same for each month return the same
\* anguloOptimo and GiAnualMWh, whatever the order in which the requests
\* settle in each run and whatever ran before.
C15_MismasEntradasMismoResultado ==
    RepiteEntradas =>
        /\ resultado.anguloOptimo = resultadoAnterior.anguloOptimo
        /\ resultado.GiAnualMWh = resultadoAnterior.GiAnualMWh

\* The third call repeated the second one's inputs, its requests settled out
\* of calendar order, and it found an optimum
C15_Witness ==
    /\ RepiteEntradas
    /\ invocaciones = 3
    /\ fueraDeOrden
    /\ resultado.anguloOptimo # Null

\* The months of the objects pushed so far
MesesSolicitados == {preApiPromises[k].mes : k \in 1..Len(preApiPromises)}

\* C16: a month's request is issued if and only if 1 <= d <= the month's day
\* count, and the day of the year of an included month is the month's first
\* day of the year + d - 1, which lies in 1..365.
C16_MesesSolicitados ==
    /\ MesesSolicitados =
          {m \in Meses : m < i /\ 1 <= diaDelMes /\ diaDelMes <= mesesData[m].dias}
    /\ \A k \in 1..Len(preApiPromises) :
          /\ preApiPromises[k].dn = mesesData[preApiPromises[k].mes].inicio_dn + diaDelMes - 1
          /\ preApiPromises[k].dn \in 1..365

\* Day 31: the loop ended with the seven 31-day months requested, the last
\* one for day 365
C16_Witness ==
    /\ pc = "await"
    /\ diaDelMes = 31
    /\ MesesSolicitados = {1, 3, 5, 7, 8, 10, 12}
    /\ preApiPromises[7].dn = 365

\* ---------------------------------------------------------------------------
\* The returned aggregate against the returned months (Spec)
\* ---------------------------------------------------------------------------

ConOptimo == pc = "done" /\ resultado.anguloOptimo # Null

\* The Gi of the entries of the returned resultadosMensuales
GiDevueltos ==
    {resultado.resultadosMensuales[k].Gi : k \in 1..Len(resultado.resultadosMensuales)}

\* C18: with a non-null optimal angle, GiMinMensual is a finite number equal
\* to the minimum Gi over all entries of resultadosMensuales: every returned
\* month has a numeric Gi and none is left out of the minimum.
C18_GiMinEsElMinimoDevuelto ==
    ConOptimo =>
        /\ TypeofNumber(resultado.GiMinMensual)
        /\ resultado.GiMinMensual \notin {NaN, Infinity}
        /\ NaN \notin GiDevueltos
        /\ resultado.GiMinMensual \in GiDevueltos
        /\ \A g \in GiDevueltos : resultado.GiMinMensual <= g

\* Sum of Gi x diasEnMes over the first k entries of resultadosMensuales
RECURSIVE SumaDevuelta(_)
SumaDevuelta(k) ==
    IF k = 0
    THEN 0
    ELSE SumaDevuelta(k - 1)
         + resultado.resultadosMensuales[k].Gi * resultado.resultadosMensuales[k].diasEnMes

\* C19: with a non-null optimal angle, GiAnualMWh equals the sum over all
\* entries of resultadosMensuales of Gi x diasEnMes, divided by 1000.
C19_GiAnualEsLaSumaDevuelta ==
    ConOptimo =>
        /\ NaN \notin GiDevueltos
        /\ resultado.GiAnualMWh =
              (SumaDevuelta(Len(resultado.resultadosMensuales)) * MWH_PREC) \div 1000

\* ---------------------------------------------------------------------------
\* Properties of ejecutarCalculos (SpecUI)
\* ---------------------------------------------------------------------------

UltimaCorrida == corridas[Len(corridas)]

\* The run started last began while an earlier run was awaiting network
\* data, and every run has now run to its end with a result
SolapadasYCompletas ==
    /\ Len(corridas) >= 2
    /\ UltimaCorrida.solapada
    /\ \A r \in 1..Len(corridas) : corridas[r].pc = "done"

\* C17: when two runs of ejecutarCalculos overlap and both complete, what is
\* finally shown and stored (resultadosMensualesGlobales, the optimal-tilt
\* display, input-hps and the sizing section) is that of the run started
\* last, whichever run finishes last.
C17_GanaLaUltimaIniciada ==
    SolapadasYCompletas =>
        LET res == UltimaCorrida.retorno
        IN  /\ resultadosMensualesGlobales = res.resultadosMensuales
            /\ inclinacionDisplay =
                  IF res.anguloOptimo # Null
                  THEN [grados |-> res.anguloOptimo, fallo |-> FALSE]
                  ELSE [grados |-> Abs(UltimaCorrida.latitudGrados), fallo |-> TRUE]
            /\ (res.anguloOptimo # Null /\ Positivo(res.GiMinMensual)) =>
                  /\ inputHps = ToFixed2(res.GiMinMensual)
                  /\ resultadoAnual = [tipo |-> "resumen", anguloOptimo |-> res.anguloOptimo,
                                       GiMinMensual |-> ToFixed2(res.GiMinMensual)]

\* The step starts a run of ejecutarCalculos that finds NaN in a field
ArrancaConNaN ==
    /\ Len(corridas') = Len(corridas) + 1
    /\ \E campo \in DOMAIN ValoresDeCampo : campos'[campo] = NaN

\* C20: when latitude, longitude or the day read by ejecutarCalculos is NaN,
\* the run ends before the optimization starts: no geocoding request and no
\* irradiance request is issued, the spinner is hidden and the stored results
\* of earlier runs are unchanged.
C20_EntradaNaNRechazada ==
    [][ArrancaConNaN =>
          /\ solicitudesPais' = solicitudesPais
          /\ llamadasOptima' = llamadasOptima
          /\ spinner' = "none"
          /\ resultadosMensualesGlobales' = resultadosMensualesGlobales
          /\ ~EnEspera(corridas'[Len(corridas')])]_vars

\* A run was rejected for a NaN day after an earlier run had stored its
\* results, which are still there
C20_Witness ==
    /\ Len(corridas) = 2
    /\ corridas[1].pc = "done"
    /\ corridas[2].pc = "rechazada"
    /\ corridas[2].diaDelMes = NaN
    /\ resultadosMensualesGlobales = corridas[1].retorno.resultadosMensuales
    /\ resultadosMensualesGlobales # <<>>
    /\ spinner = "none"
    /\ solicitudesPais = 1
    /\ llamadasOptima = 1

\* ---------------------------------------------------------------------------
\* Sizing, consumption and request-date functions applied to given
\* arguments (SpecDimensionado)
\* ---------------------------------------------------------------------------

\* Largest total panel count and largest series count the functions are given
MaxNt == 12

MaxNs == 4

\* Math.ceil of the quotient of two integers, den > 0
MathCeil(num, den) == -((-num) \div den)

calcularRamasEnParaleloTruncado(Nt, Ns) ==
    IF Ns <= 0 THEN Nt ELSE Nt \div Ns

calcularRamasEnParalelo(Nt, Ns) ==
    IF Ns <= 0 THEN Nt ELSE MathCeil(Nt, Ns)

\* calcularNumeroPaneles: the array it shows has Ns x Np panels
Nt_final(Nt_total, Ns) == Ns * calcularRamasEnParalelo(Nt_total, Ns)

AplicarRamasEnParalelo ==
    /\ aplicada = "ninguna"
    /\ \E Nt \in 0..MaxNt, Ns \in 0..MaxNs :
          /\ entrada' = [Nt |-> Nt, Ns |-> Ns]
          /\ salida' = [Np |-> calcularRamasEnParalelo(Nt, Ns), Nt_final |-> Nt_final(Nt, Ns)]
    /\ aplicada' = "calcularRamasEnParalelo"
    /\ UNCHANGED fueraDeLasFormulas

\* Largest number of rows of the consumption table
MaxFilas == 2

\* a / b for a in Wh and b scaled
Div(a, b) == (a * SCALE) \div b

\* parseFloat(value) || d and parseInt(value) || d
ODefecto(x, d) == IF x = NaN \/ x = 0 THEN d ELSE x

\* The rows of cuerpo-tabla-consumo: select tipo and the parsed inputs
\* potencia (W), tiempo (h) and cantidad
Tipos == {"AC", "DC"}

Potencias == {-5, 100}

Tiempos == {4, 25}

Cantidades == {NaN, 2}

Filas == [tipo : Tipos, potencia : Potencias, tiempo : Tiempos, cantidad : Cantidades]

\* Values of etaBat and etaInv (scaled): empty field, none, 0.5, 0.8, 1
Eficiencias == {NaN, 0, 500, 800, 1000}

FilaInvalida(row) ==
    LET potencia == ODefecto(row.potencia, 0)
        tiempo == ODefecto(row.tiempo, 0)
        cantidad == ODefecto(row.cantidad, 1)
    IN  potencia < 0 \/ tiempo < 0 \/ tiempo > 24 \/ cantidad < 1

energiaDiaria(row) ==
    ODefecto(row.potencia, 0) * ODefecto(row.tiempo, 0) * ODefecto(row.cantidad, 1)

\* The loop over the rows from row n on, with what it has accumulated so far
RECURSIVE RecorrerFilas(_, _, _)
RecorrerFilas(filas, n, acc) ==
    IF n > Len(filas) THEN acc
    ELSE IF FilaInvalida(filas[n]) THEN [acc EXCEPT !.is_valid = FALSE]
    ELSE IF filas[n].tipo = "DC"
         THEN RecorrerFilas(filas, n + 1, [acc EXCEPT !.EDC = @ + energiaDiaria(filas[n])])
         ELSE RecorrerFilas(filas, n + 1, [acc EXCEPT !.EAC = @ + energiaDiaria(filas[n])])

\* calcularConsumoTotal: the value it returns and hands to the callback
calcularConsumoTotal(filas, etaBatValue, etaInvValue) ==
    LET etaBAT == ODefecto(etaBatValue, 0)
        etaINV == ODefecto(etaInvValue, 0)
        r == RecorrerFilas(filas, 1, [EDC |-> 0, EAC |-> 0, is_valid |-> TRUE])
    IN  IF etaBAT <= 0 \/ etaINV <= 0 THEN [ET |-> 0, eficiencias |-> FALSE, is_valid |-> TRUE]
        ELSE IF ~r.is_valid THEN [ET |-> 0, eficiencias |-> TRUE, is_valid |-> FALSE]
        ELSE LET energiaDC_ajustada == Div(r.EDC, etaBAT)
                 energiaAC_ajustada == Div(r.EAC, Mul(etaBAT, etaINV))
             IN  [ET |-> energiaDC_ajustada + energiaAC_ajustada,
                  eficiencias |-> TRUE, is_valid |-> TRUE]

\* The tables of at most MaxFilas rows
Tablas == UNION {[1..n -> Filas] : n \in 0..MaxFilas}

AplicarConsumoTotal ==
    /\ aplicada = "ninguna"
    /\ \E filas \in Tablas, etaBat \in Eficiencias, etaInv \in Eficiencias :
          /\ entrada' = [filas |-> filas, etaBat |-> etaBat, etaInv |-> etaInv]
          /\ salida' = calcularConsumoTotal(filas, etaBat, etaInv)
    /\ aplicada' = "calcularConsumoTotal"
    /\ UNCHANGED fueraDeLasFormulas

\* const year = 2023
YEAR == 2023

MINUTOS_POR_DIA == 1440

\* Days of the year obtenerGdOpenMeteo is given (1 a 365)
DiasDeSolicitud == 1..365

\* Offsets of the browser's local time from UTC, in minutes east of Greenwich
Desfases == {-720, -240, 0, 60, 330, 840}

\* new Date(year, 0) and date.setDate(dn): midnight of day dn in local time,
\* in minutes of local time since the local start of the year
FechaLocal(dn) == (dn - 1) * MINUTOS_POR_DIA

\* The instant of a local time, in minutes since 2023-01-01T00:00Z
InstanteUTC(minutosLocales, desfase) == minutosLocales - desfase

\* The calendar day (UTC) of an instant of 2022-12-31 .. 2024-01-01
FechaDeInstante(minutosUTC) ==
    LET d == minutosUTC \div MINUTOS_POR_DIA
    IN  IF d < 0 THEN [anio |-> YEAR - 1, mes |-> 12, dia |-> 32 + d]
        ELSE IF d >= 365 THEN [anio |-> YEAR + 1, mes |-> 1, dia |-> d - 364]
        ELSE LET m == CHOOSE k \in Meses :
                          /\ mesesData[k].inicio_dn <= d + 1
                          /\ d + 1 < mesesData[k].inicio_dn + mesesData[k].dias
             IN  [anio |-> YEAR, mes |-> m, dia |-> d + 2 - mesesData[m].inicio_dn]

\* date.toISOString().split('T')[0]: the UTC calendar day of the local midnight
dateString(dn, desfase) == FechaDeInstante(InstanteUTC(FechaLocal(dn), desfase))

AplicarFechaDeSolicitud ==
    /\ aplicada = "ninguna"
    /\ \E dn \in DiasDeSolicitud, desfase \in Desfases :
          /\ entrada' = [dn |-> dn, desfase |-> desfase]
          /\ salida' = [start_date |-> dateString(dn, desfase), end_date |-> dateString(dn, desfase)]
    /\ aplicada' = "obtenerGdOpenMeteo"
    /\ UNCHANGED fueraDeLasFormulas

InitDimensionado ==
    /\ latitudGrados = 10
    /\ diaDelMes = 15
    /\ fuente = [m \in Meses |-> PerfilMJ[m]]
    /\ InitOptimizador
    /\ maxRetries = MAX_RETRIES_DEFECTO
    /\ InitFetch
    /\ InitFormulas
    /\ InitUI

NextDimensionado ==
    \/ AplicarRamasEnParalelo
    \/ AplicarConsumoTotal
    \/ AplicarFechaDeSolicitud

SpecDimensionado == InitDimensionado /\ [][NextDimensionado]_vars

\* ---------------------------------------------------------------------------
\* C21
\* ---------------------------------------------------------------------------

AplicadaRamas == aplicada = "calcularRamasEnParalelo" /\ entrada.Ns >= 1

\* C21: for every total panel count Nt >= 0 and series count Ns >= 1,
\* calcularRamasEnParalelo returns the smallest integer Np with Ns x Np >= Nt,
\* so the Ns-by-Np array holds at least Nt panels and fewer than Nt + Ns.
C21_RamasMinimasQueCubren ==
    AplicadaRamas =>
        /\ entrada.Ns * salida.Np >= entrada.Nt
        /\ \A n \in 0..MaxNt : entrada.Ns * n >= entrada.Nt => salida.Np <= n
        /\ salida.Nt_final >= entrada.Nt
        /\ salida.Nt_final < entrada.Nt + entrada.Ns

\* 7 panels in series of 3: 3 branches, 9 panels
C21_Witness ==
    /\ AplicadaRamas
    /\ entrada.Nt = 7
    /\ entrada.Ns = 3
    /\ salida.Np = 3
    /\ salida.Nt_final = 9

\* ---------------------------------------------------------------------------
\* C22
\* ---------------------------------------------------------------------------

\* The sum over all rows of power x hours x quantity
RECURSIVE SumaDeFilas(_, _)
SumaDeFilas(filas, n) ==
    IF n > Len(filas) THEN 0 ELSE energiaDiaria(filas[n]) + SumaDeFilas(filas, n + 1)

ConsumoCalculado ==
    /\ aplicada = "calcularConsumoTotal"
    /\ salida.eficiencias
    /\ salida.is_valid

\* C22: the adjusted daily consumption calcularConsumoTotal returns is the sum
\* over all rows of power x hours x quantity divided by (battery efficiency x
\* inverter efficiency), for every mix of AC and DC rows.
C22_ConsumoEntreAmbasEficiencias ==
    ConsumoCalculado =>
        salida.ET = Div(SumaDeFilas(entrada.filas, 1), Mul(entrada.etaBat, entrada.etaInv))

\* ---------------------------------------------------------------------------
\* C23
\* ---------------------------------------------------------------------------

\* The dn-th calendar day of the reference year
DiaDelCalendario(dn) ==
    LET m == CHOOSE k \in Meses :
                 mesesData[k].inicio_dn <= dn /\ dn < mesesData[k].inicio_dn + mesesData[k].dias
    IN  [anio |-> 2023, mes |-> m, dia |-> dn - mesesData[m].inicio_dn + 1]

\* C23: for every day of the year dn in 1..365 and every timezone offset of
\* the browser, the date obtenerGdOpenMeteo places in the request URL is the
\* dn-th calendar day of 2023 (dn = 1 gives 2023-01-01, dn = 365 gives
\* 2023-12-31).
C23_FechaDeLaSolicitud ==
    aplicada = "obtenerGdOpenMeteo" =>
        /\ salida.start_date = DiaDelCalendario(entrada.dn)
        /\ salida.end_date = DiaDelCalendario(entrada.dn)

\* ---------------------------------------------------------------------------
\* C24, C25, C30
\* ---------------------------------------------------------------------------

\* In this step run r of ejecutarCalculos resumed with the no-optimum result
\* and ran to its end
TerminaSinOptimo(r) ==
    /\ r <= Len(corridas)
    /\ corridas[r].pc = "awaitOptima"
    /\ corridas'[r].pc = "done"
    /\ corridas'[r].retorno.anguloOptimo = Null

\* C24: after a run of ejecutarCalculos in which the optimizer returns no
\* optimum, the panel-matrix and regulator areas show no sizing values, even
\* when an earlier successful run left values in input-et and input-hps.
C24_SinOptimoSinDimensionamiento ==
    [][(\E r \in 1..MaxCorridas : TerminaSinOptimo(r)) =>
          /\ resultadoMatriz'.tipo # "valores"
          /\ resultadoRegulador'.tipo # "valores"]_vars

\* In this step a run of ejecutarCalculos started with ET_Global_Wh = 0
ArrancaSinConsumo ==
    /\ Len(corridas') = Len(corridas) + 1
    /\ corridas'[Len(corridas')].ET_requerida = 0

\* C25: a run of ejecutarCalculos with a total consumption of 0 issues no
\* network request and leaves the panel-matrix, battery, regulator and
\* cabling areas showing only their 'insufficient data' messages, whatever an
\* earlier run with positive consumption displayed.
C25_SinConsumoSoloMensajes ==
    [][ArrancaSinConsumo =>
          /\ solicitudesPais' = solicitudesPais
          /\ llamadasOptima' = llamadasOptima
          /\ resultadoMatriz'.tipo = "mensaje"
          /\ resultadoBaterias'.tipo = "mensaje"
          /\ resultadoRegulador'.tipo = "mensaje"
          /\ resultadoCableado'.tipo = "mensaje"]_vars

\* C30: the loading spinner is displayed whenever at least one run of
\* ejecutarCalculos is awaiting network data and hidden once none is in
\* flight; a run that finishes does not hide it while another is pending.
C30_SpinnerMientrasHayaEspera ==
    spinner = "block" <=> \E r \in 1..Len(corridas) : EnEspera(corridas[r])

\* ---------------------------------------------------------------------------
\* C28
\* ---------------------------------------------------------------------------

\* The call has settled
Asentada == fpc \in {"resolved", "rejected"}

DiasRepresentativos == 1..31

\* The data source delivers a value for every month
FuenteCompleta == [m \in Meses |-> PerfilMJ[m]]

\* Every day with the complete source; day 31 with every source
InitDias ==
    /\ latitudGrados = 10
    /\ diaDelMes \in DiasRepresentativos
    /\ fuente \in Fuentes
    /\ diaDelMes # 31 => fuente = FuenteCompleta
    /\ InitOptimizador
    /\ maxRetries = MAX_RETRIES_DEFECTO
    /\ InitFetch
    /\ InitFormulas
    /\ InitUI

NextDias ==
    \/ OmitirMes
    \/ EmitirSolicitud
    \/ EsperarTodas
    \/ \E k \in 1..Len(preApiPromises) : Completar(k)
    \/ Agregar

SpecDias == InitDias /\ [][NextDias]_vars

\* ---------------------------------------------------------------------------
\* C29
\* ---------------------------------------------------------------------------

\* The request loop has ended
BucleTerminado == pc # "loop"

\* C29: for a representative day of 31 calcularRadiacionOptima issues
\* requests for only the 7 months that have 31 days and always returns the
\* no-optimum result, whatever the data source delivers; for every day from 1
\* to 28 it issues exactly 12 requests, and for 29 or 30 exactly 11.
C29_SolicitudesPorDia ==
    /\ (BucleTerminado /\ diaDelMes = 31) =>
          /\ Len(preApiPromises) = 7
          /\ MesesSolicitados = {m \in Meses : mesesData[m].dias = 31}
    /\ (diaDelMes = 31 /\ pc \notin {"loop", "await"}) =>
          /\ pc = "done"
          /\ resultado = NoOptimo
    /\ (BucleTerminado /\ diaDelMes \in 1..28) => Len(preApiPromises) = 12
    /\ (BucleTerminado /\ diaDelMes \in {29, 30}) => Len(preApiPromises) = 11

\* Day 31 with a source that has data for every month: seven requests, all
\* answered, and the no-optimum result
C29_Witness ==
    /\ diaDelMes = 31
    /\ fuente = FuenteCompleta
    /\ pc = "done"
    /\ Len(preApiPromises) = 7
    /\ \A k \in 1..7 : Positivo(preApiPromises[k].Gd_kWh)
    /\ resultado = NoOptimo

\* Day 30: eleven requests and an optimum
C29_WitnessOnce ==
    /\ diaDelMes = 30
    /\ pc = "done"
    /\ Len(preApiPromises) = 11
    /\ resultado.anguloOptimo # Null

\* ---------------------------------------------------------------------------
\* handleGridCalculation (main_grid_script.js, SpecRed)
\* ---------------------------------------------------------------------------

\* x <= 0 as JS evaluates it: false for NaN
NoPositivo(x) == x # NaN /\ x <= 0

\* calcularPotenciaPico: kWp (scaled) for a consumption and an HSP in kWh and
\* a scaled factor; Rechazo for the Error it throws
calcularPotenciaPico(consumoAnual_kWh, HSP_anual, factorRendimiento) ==
    IF NoPositivo(HSP_anual) \/ NoPositivo(factorRendimiento) THEN Rechazo
    ELSE IF HSP_anual = NaN \/ factorRendimiento = NaN \/ consumoAnual_kWh = NaN THEN NaN
    ELSE IF Mul(HSP_anual, factorRendimiento) = 0 THEN Infinity
    ELSE (consumoAnual_kWh * SCALE) \div Mul(HSP_anual, factorRendimiento)

\* calcularNumeroModulos: Math.ceil(potenciaPico_kWp * 1000 / potenciaModulo_Wp)
calcularNumeroModulos(potenciaPico_kWp, potenciaModulo_Wp) ==
    IF NoPositivo(potenciaModulo_Wp) THEN Rechazo
    ELSE IF potenciaPico_kWp = NaN \/ potenciaModulo_Wp = NaN THEN NaN
    ELSE IF potenciaPico_kWp = Infinity THEN Infinity
    ELSE MathCeil(potenciaPico_kWp, potenciaModulo_Wp)

\* mostrarError(resultsDiv, mensaje)
MostrarError(mensaje) ==
    [tipo |-> "error", mensaje |-> mensaje, HSP_anual |-> Undefined,
     potenciaPico_kWp |-> Undefined, numModulos |-> Undefined]

\* handleGridCalculation from the validation of its inputs to its end, with
\* the fields it read (f) and its variable HSP_anual
TerminarCalculo(f, HSP_anual) ==
    IF \/ NoPositivo(f.consumoAnual_kWh) \/ NoPositivo(HSP_anual)
       \/ NoPositivo(f.rendimientoSistema) \/ NoPositivo(f.potenciaModulo_Wp)
    THEN MostrarError("valores validos")
    ELSE LET factorRendimiento ==
                 IF f.rendimientoSistema = NaN THEN NaN
                 ELSE IF f.rendimientoSistema > SCALE THEN f.rendimientoSistema \div 100
                 ELSE f.rendimientoSistema
             potenciaPico_kWp ==
                 calcularPotenciaPico(f.consumoAnual_kWh, HSP_anual, factorRendimiento)
             numModulos ==
                 IF potenciaPico_kWp = Rechazo THEN Rechazo
                 ELSE calcularNumeroModulos(potenciaPico_kWp, f.potenciaModulo_Wp)
         IN  IF numModulos = Rechazo
             THEN MostrarError("error al calcular")
             ELSE [tipo |-> "resultados", mensaje |-> "", HSP_anual |-> HSP_anual,
                   potenciaPico_kWp |-> potenciaPico_kWp, numModulos |-> numModulos]

\* The submit event: handleGridCalculation from its entry to its await, or
\* to its end when the coordinates are missing
EnviarFormulario ==
    /\ gpc = "idle"
    /\ envio' = [latitudGrados |-> formulario.latitud,
                 longitudGrados |-> formulario.longitud,
                 HSP_anual |-> formulario.hspAnual, retorno |-> envio.retorno]
    /\ IF formulario.latitud = NaN \/ formulario.longitud = NaN
       THEN /\ gpc' = "done"
            /\ gridResults' =
                  IF NoPositivo(formulario.hspAnual)
                  THEN MostrarError("coordenadas o HSP")
                  ELSE TerminarCalculo(formulario, formulario.hspAnual)
       ELSE /\ gpc' = "await"
            /\ gridResults' = [gridResults EXCEPT !.tipo = "calculando"]
    /\ UNCHANGED formulario
    /\ UNCHANGED fueraDeLaRed

\* calcularRadiacionOptima throws instead of returning
RetornoRechazado ==
    [anguloOptimo |-> Rechazo, GiMinMensual |-> Rechazo, GiAnualMWh |-> Rechazo,
     resultadosMensuales |-> <<>>]

\* await calcularRadiacionOptima(...) settles with res and the handler runs
\* to its end.  HSP_anual = GiAnualMWh * 1000 is held in whole kWh, and
\* toFixed(2) leaves a whole number as it is.
ResolverCore(res) ==
    /\ gpc = "await"
    /\ gpc' = "done"
    /\ envio' = [envio EXCEPT !.retorno = res]
    /\ IF res = RetornoRechazado
       THEN /\ UNCHANGED formulario
            /\ gridResults' = TerminarCalculo(formulario, 0)
       ELSE IF res.anguloOptimo = Null
       THEN \* hsp-anual is written, then anguloOptimo.toFixed throws a
            \* TypeError, which the catch block turns into HSP_anual = 0
            /\ formulario' = [formulario EXCEPT !.hspAnual = (res.GiAnualMWh * 1000) \div SCALE]
            /\ gridResults' = TerminarCalculo(formulario, 0)
       ELSE /\ formulario' = [formulario EXCEPT
                                 !.hspAnual = (res.GiAnualMWh * 1000) \div SCALE,
                                 !.inclinacion = res.anguloOptimo]
            /\ gridResults' = TerminarCalculo(formulario, (res.GiAnualMWh * 1000) \div SCALE)
    /\ UNCHANGED fueraDeLaRed

\* The form as the user filled it
InitRed ==
    /\ latitudGrados = 10
    /\ diaDelMes = 15
    /\ fuente = [m \in Meses |-> PerfilMJ[m]]
    /\ InitOptimizador
    /\ maxRetries = MAX_RETRIES_DEFECTO
    /\ InitFetch
    /\ InitFormulas
    /\ campos = [latitud |-> 10, longitud |-> -66, diaDelMes |-> 15]
    /\ ET_Global_Wh = 0
    /\ manuales = FALSE
    /\ PaginaEnReposo
    /\ formulario \in [latitud : {NaN, 10}, longitud : {NaN, -66},
                       hspAnual : {NaN, -5, 0, 1500}, inclinacion : {0},
                       consumoAnual_kWh : {0, 4000},
                       rendimientoSistema : {NaN, 0, 800, 80000},
                       potenciaModulo_Wp : {0, 400}]
    /\ RedEnReposo

NextRed ==
    \/ EnviarFormulario
    \/ /\ gpc = "await"
       /\ \E res \in Retornos(envio.latitudGrados) \cup {RetornoRechazado} : ResolverCore(res)

SpecRed == InitRed /\ [][NextRed]_vars

\* ---------------------------------------------------------------------------
\* C26, C27
\* ---------------------------------------------------------------------------

\* The handler ended after calcularRadiacionOptima returned the no-optimum
\* result for valid coordinates
TerminoSinOptimo ==
    /\ gpc = "done"
    /\ envio.latitudGrados # NaN
    /\ envio.longitudGrados # NaN
    /\ envio.retorno.anguloOptimo = Null

\* C26: when valid coordinates are entered and calcularRadiacionOptima
\* returns the no-optimum result, handleGridCalculation ends showing an error
\* message, renders no sizing results, and leaves the HSP value the user had
\* typed in the hsp-anual field unchanged.
C26_SinOptimoConservaHSP ==
    TerminoSinOptimo =>
        /\ gridResults.tipo = "error"
        /\ formulario.hspAnual = envio.HSP_anual

\* C27: handleGridCalculation calls mostrarResultados only when the annual
\* HSP it uses is a positive number; with the coordinates missing and the
\* hsp-anual field empty, non-numeric or non-positive it shows an error and
\* renders no results.
C27_ResultadosSoloConHSPPositivo ==
    /\ gridResults.tipo = "resultados" => Positivo(gridResults.HSP_anual)
    /\ (gpc = "done" /\ (envio.latitudGrados = NaN \/ envio.longitudGrados = NaN)
          /\ ~Positivo(envio.HSP_anual)) => gridResults.tipo = "error"

====
